---------------------------- MODULE Spec2Model ----------------------------
(***************************************************************************)
(* A model of wubraglib: the document collector (src/src/document.rs), the *)
(* chunking engine (src/src/chunking.rs) and the similarity index          *)
(* (src/src/indexing.rs), and the collector of the crate root              *)
(* (src/src/lib.rs), which draws Document ids from a static counter.       *)
(*                                                                         *)
(* Text is a sequence of one-character strings.  A SHA-256 digest is       *)
(* modelled as a collision-free digest: a record that stands for the byte  *)
(* string that was fed to the hasher.  A 32-byte id fed to the hasher is   *)
(* one element of that byte string (it has a fixed width, so it never      *)
(* runs into the bytes that follow it).                                    *)
(*                                                                         *)
(* tree-sitter is an external library: what it answers for a text (no      *)
(* tree, or a tree with its nodes in document order) is an input, drawn    *)
(* with the document and fixed for it (parsing is deterministic); so is    *)
(* whether each query of the registry compiles against its grammar.        *)
(***************************************************************************)
EXTENDS Integers, Sequences, FiniteSets, TLC

VARIABLES
    doc,        \* chunking: the Document handed to chunk_document
    ts,         \* chunking: tree-sitter's answer for doc.text
    called,     \* chunking: which of the two entry points have run
    chunks,     \* chunking: what chunk_document(doc) returned
    naive,      \* chunking: what naive_chunk_document(doc.text, doc.id) returned
    docs,       \* chunk_all_documents: its argument, each Document with the parser's answer
    order,      \* chunk_all_documents: per run, the per-document tasks in the order they finished
    results,    \* chunk_all_documents: per run, what each finished task returned
    merged,     \* chunk_all_documents: per run, the (chunks, id_to_idx) it returned
    new_args,   \* index: the (chunks, embeddings) handed to Index::new
    index,      \* index: the Index, once built
    out,        \* index: the last call on the Index and how it ended
    fs,         \* collector: the file system under the root path
    gpc,        \* collector: where grab_all_documents is
    pending,    \* collector: the walk's entries that no task has taken yet
    loaded,     \* collector: the Documents collected so far, as they came
    gout,       \* collector: what grab_all_documents returned
    ID_COUNTER, \* lib.rs: the static AtomicU32 the Document ids are drawn from
    lib_fs,     \* lib.rs: the entries under the root, in the order of the walk
    lib_pc,     \* lib.rs: where grab_all_documents is
    paths,      \* lib.rs: the relative paths the walk collected
    f2docs,     \* lib.rs: per path, what its f2doc task returned, once it ran
    lib_out     \* lib.rs: what grab_all_documents returned

chunkVars == <<doc, ts, called, chunks, naive>>
parVars   == <<docs, order, results, merged>>
indexVars == <<new_args, index, out>>
collectVars == <<fs, gpc, pending, loaded, gout>>
libVars == <<ID_COUNTER, lib_fs, lib_pc, paths, f2docs, lib_out>>
vars == <<chunkVars, parVars, indexVars, collectVars, libVars>>

---------------------------------------------------------------------------
(* Bounds *)

\* longest document text, in characters
MaxLen == 4
\* longest source text whose syntax tree holds item nodes (a longer text
\* parses to a tree without items, or not at all)
MaxSrcLen == 2
\* most item nodes in a syntax tree
MaxNodes == 2
\* the number of Documents handed to chunk_all_documents
NumDocs == 2
\* most chunks, and most embeddings, handed to Index::new
MaxChunks == 2
MaxEmb == 3

---------------------------------------------------------------------------
(* Text *)

NL == "\n"
SP == " "

\* the characters of a document text: one non-blank character and the two
\* kinds of white space that the code treats differently
Chars == {"a", SP, NL}

RECURSIVE TextsOfLen(_)
TextsOfLen(n) ==
    IF n = 0 THEN {<<>>}
    ELSE {Append(t, c) : t \in TextsOfLen(n - 1), c \in Chars}

Texts(maxLen) == UNION {TextsOfLen(n) : n \in 0..maxLen}

\* char::is_whitespace, on the characters of the model
IsWs(c) == c \in {SP, NL}

RECURSIVE TrimStart(_)
TrimStart(s) ==
    IF s = <<>> THEN s
    ELSE IF IsWs(Head(s)) THEN TrimStart(Tail(s)) ELSE s

RECURSIVE TrimEnd(_)
TrimEnd(s) ==
    IF s = <<>> THEN s
    ELSE IF IsWs(s[Len(s)]) THEN TrimEnd(SubSeq(s, 1, Len(s) - 1)) ELSE s

\* str::trim
Trim(s) == TrimEnd(TrimStart(s))

\* str::split("\n\n"): the segments between the non-overlapping occurrences
\* of the separator, found left to right; cur is the segment being read
RECURSIVE SplitFrom(_, _)
SplitFrom(s, cur) ==
    IF s = <<>> THEN <<cur>>
    ELSE IF Len(s) >= 2 /\ s[1] = NL /\ s[2] = NL
         THEN <<cur>> \o SplitFrom(SubSeq(s, 3, Len(s)), <<>>)
         ELSE SplitFrom(Tail(s), Append(cur, Head(s)))

SplitBlankLine(s) == SplitFrom(s, <<>>)

---------------------------------------------------------------------------
(* Identity *)

\* sha2::Sha256 over the bytes fed to it, as a collision-free digest
Sha256(bytes) == [sha256 |-> bytes]

compute_document_id(path, content) == Sha256(path \o content)

\* the runs of chunk_all_documents over the same Documents
Runs == {"first", "second"}

\* the number of per-document tasks that have finished so far
TasksDone == Len(order["first"]) + Len(order["second"])

\* a mutation of compute_chunk_id: the id is drawn from a shared counter
\* (the tasks finished so far) instead of being hashed from the content
compute_chunk_id_counter(doc_id, chunk_text) == Sha256(<<doc_id, TasksDone>>)

compute_chunk_id(doc_id, chunk_text) == Sha256(<<doc_id>> \o chunk_text)

---------------------------------------------------------------------------
(* Documents *)

\* the last index of "." in a file name, 0 when there is none
RECURSIVE LastDot(_, _)
LastDot(name, i) ==
    IF i = 0 THEN 0 ELSE IF name[i] = "." THEN i ELSE LastDot(name, i - 1)

\* the last index of the separator "/" in a path, 0 when there is none (a
\* backslash is an ordinary character of a file name)
RECURSIVE LastSeparator(_, _)
LastSeparator(path, i) ==
    IF i = 0 THEN 0 ELSE IF path[i] = "/" THEN i ELSE LastSeparator(path, i - 1)

\* Path::file_name: the last component of a path
FileName(path) == SubSeq(path, LastSeparator(path, Len(path)) + 1, Len(path))

\* Path::extension: what follows the last dot of the file name, and
\* nothing when the name has no dot or its only dot comes first
Extension(path) ==
    LET name == FileName(path)
        d == LastDot(name, Len(name))
    IN  IF d <= 1 THEN <<>> ELSE SubSeq(name, d + 1, Len(name))

\* normalized_path_for_id: every backslash of the relative path becomes "/"
normalized_path_for_id(relative) ==
    [i \in 1..Len(relative) |-> IF relative[i] = "\\" THEN "/" ELSE relative[i]]

\* the Document load_document builds for a readable file at the relative
\* path: the id and the path take the normalized path, the extension is
\* that of the file as it is named
MakeDocument(relative, text) ==
    LET relative_str == normalized_path_for_id(relative)
    IN  [id   |-> compute_document_id(relative_str, text),
         path |-> relative_str,
         text |-> text,
         ext  |-> Extension(relative),
         size |-> Len(text)]

\* the file names of the model: no extension, Rust, C source, C header
Paths == {<<"a">>, <<"a", ".", "r", "s">>, <<"a", ".", "c">>, <<"a", ".", "h">>}

---------------------------------------------------------------------------
(* Grammar registry *)

None == "None"

\* LANGUAGE_MAP: the grammar of an extension
LANGUAGE_MAP(ext) ==
    CASE ext = <<"r", "s">>      -> "rust"
      [] ext = <<"c", "p", "p">> -> "cpp"
      [] ext = <<"h", "p", "p">> -> "cpp"
      [] ext = <<"c">>           -> "c"
      [] ext = <<"h">>           -> "c"
      [] ext = <<"j", "s">>      -> "javascript"
      [] ext = <<"p", "y">>      -> "python"
      [] ext = <<"c", "u">>      -> "cuda"
      [] OTHER                   -> None

\* Option<String> of a query: a query is modelled as the set of node kinds
\* its patterns capture
NoQuery == [some |-> FALSE, kinds |-> {}]
SomeQuery(kinds) == [some |-> TRUE, kinds |-> kinds]

\* get_queries_from_extension: (container query, function query).  The
\* C queries also capture the type_specifier under a declaration.
get_queries_from_extension(ext) ==
    CASE ext = <<"r", "s">> ->
            [container |-> SomeQuery({"struct_item", "impl_item", "mod_item", "enum_item", "trait_item"}),
             function  |-> SomeQuery({"function_item"})]
      [] ext = <<"p", "y">> ->
            [container |-> SomeQuery({"class_definition"}),
             function  |-> SomeQuery({"function_definition"})]
      [] ext = <<"j", "s">> ->
            [container |-> SomeQuery({"class_declaration"}),
             function  |-> SomeQuery({"function_declaration", "arrow_function",
                            "method_definition", "variable_declaration"})]
      [] ext = <<"c">> ->
            [container |-> SomeQuery({"struct_specifier", "union_specifier", "enum_specifier"}),
             function  |-> SomeQuery({"function_definition", "declaration", "type_specifier"})]
      [] ext \in {<<"c", "p", "p">>, <<"c", "u">>} ->
            [container |-> SomeQuery({"class_specifier", "struct_specifier", "enum_specifier",
                            "namespace_definition"}),
             function  |-> SomeQuery({"function_definition", "template_declaration",
                            "declaration", "type_specifier"})]
      [] ext = <<"h", "t", "m", "l">> ->
            [container |-> SomeQuery({"element"}), function |-> NoQuery]
      [] OTHER ->
            [container |-> NoQuery, function |-> NoQuery]

\* the kind of the root node of a grammar's trees
RootKind(lang) ==
    CASE lang = "rust"       -> "source_file"
      [] lang = "python"     -> "module"
      [] lang = "javascript" -> "program"
      [] OTHER               -> "translation_unit"

\* the kinds of type-level and of callable-level item the model lets a tree
\* hold, per grammar
ItemKinds(lang) ==
    CASE lang = "rust"       -> {"struct_item", "function_item"}
      [] lang = "python"     -> {"class_definition", "function_definition"}
      [] lang = "javascript" -> {"class_declaration", "function_declaration"}
      [] OTHER               -> {"struct_specifier", "function_definition"}

\* the parent of an item: the root, or a block nested in another item
ParentKinds(lang) == {RootKind(lang), "declaration_list"}

\* the spans (start, end byte) an item node can cover: an item starts and
\* ends on a token, so its span is not empty and has no blank at either end
Spans(text) ==
    IF Len(text) > MaxSrcLen THEN {}
    ELSE {<<s, e>> \in (0..Len(text)) \X (0..Len(text)) :
            s < e /\ ~IsWs(text[s + 1]) /\ ~IsWs(text[e])}

Nodes(lang, text) ==
    {[kind |-> k, parent |-> p, start |-> sp[1], end |-> sp[2]] :
        k \in ItemKinds(lang), p \in ParentKinds(lang), sp \in Spans(text)}

RECURSIVE SeqsOfLen(_, _)
SeqsOfLen(S, n) ==
    IF n = 0 THEN {<<>>}
    ELSE {Append(q, x) : q \in SeqsOfLen(S, n - 1), x \in S}

SeqsUpTo(S, n) == UNION {SeqsOfLen(S, m) : m \in 0..n}

\* what Parser::parse can answer for a text: no tree, or a tree whose item
\* nodes the queries visit in order; nothing when there is no grammar
ParseAnswers(lang, text, maxNodes) ==
    IF lang = None THEN {[tree |-> FALSE, nodes |-> <<>>]}
    ELSE {[tree |-> FALSE, nodes |-> <<>>]}
         \cup {[tree |-> TRUE, nodes |-> ns] : ns \in SeqsUpTo(Nodes(lang, text), maxNodes)}

\* what Query::new can answer for the two queries of an extension: Ok or
\* Err for a query that exists; a query that is missing is not compiled
AllCompiled == [container |-> TRUE, function |-> TRUE]

CompileAnswers(ext) ==
    LET q == get_queries_from_extension(ext)
    IN  [container : IF q.container.some THEN BOOLEAN ELSE {TRUE},
         function  : IF q.function.some THEN BOOLEAN ELSE {TRUE}]

\* what tree-sitter answers for a document: the parse, and for a tree the
\* compilation of the queries that are run on it
Answer(tree, nodes, compiled) == [tree |-> tree, nodes |-> nodes, compiled |-> compiled]

Answers(ext, text, maxNodes) ==
    {a \in {Answer(p.tree, p.nodes, c) :
                p \in ParseAnswers(LANGUAGE_MAP(ext), text, maxNodes),
                c \in CompileAnswers(ext)} :
        a.tree \/ a.compiled = AllCompiled}

---------------------------------------------------------------------------
(* Chunking *)

Chunk(id, doc_id, text, chunk_type, char_count) ==
    [id |-> id, doc_id |-> doc_id, text |-> text,
     chunk_type |-> chunk_type, char_count |-> char_count]

\* the fallback chunk both chunkers push when they found nothing
DocumentChunk(doc_text, doc_id) ==
    Chunk(compute_chunk_id(doc_id, doc_text), doc_id, Trim(doc_text),
          "document", Len(doc_text))

\* a mutation of ParagraphChunks: the filter on blank segments is missing
RECURSIVE ParagraphChunksNoFilter(_, _)
ParagraphChunksNoFilter(paras, doc_id) ==
    IF paras = <<>> THEN <<>>
    ELSE <<Chunk(compute_chunk_id(doc_id, Head(paras)), doc_id, Head(paras),
                 "paragraph", Len(Head(paras)))>>
         \o ParagraphChunksNoFilter(Tail(paras), doc_id)

\* the loop of naive_chunk_document: one chunk per segment that is not
\* blank, carrying the segment as it is
RECURSIVE ParagraphChunks(_, _)
ParagraphChunks(paras, doc_id) ==
    IF paras = <<>> THEN <<>>
    ELSE (IF Trim(Head(paras)) = <<>> THEN <<>>
          ELSE <<Chunk(compute_chunk_id(doc_id, Head(paras)), doc_id, Head(paras),
                       "paragraph", Len(Head(paras)))>>)
         \o ParagraphChunks(Tail(paras), doc_id)

naive_chunk_document(doc_text, doc_id) ==
    LET cs == ParagraphChunks(SplitBlankLine(doc_text), doc_id)
    IN  IF cs = <<>> THEN <<DocumentChunk(doc_text, doc_id)>> ELSE cs

\* the is_top_level test on a captured node's parent
IsTopLevel(node) == node.parent \in {"source_file", "module", "program"}

\* one query's loop over its captures: the nodes of a captured kind, in the
\* order of the tree, that are top-level and not blank
RECURSIVE QueryChunks(_, _, _)
QueryChunks(d, nodes, kinds) ==
    IF nodes = <<>> THEN <<>>
    ELSE LET node == Head(nodes)
             raw_text == SubSeq(d.text, node.start + 1, node.end)
         IN  (IF node.kind \in kinds /\ IsTopLevel(node) /\ Trim(raw_text) # <<>>
              THEN <<Chunk(compute_chunk_id(d.id, raw_text), d.id, Trim(raw_text),
                           node.kind, Len(raw_text))>>
              ELSE <<>>)
             \o QueryChunks(d, Tail(nodes), kinds)

\* one of the two blocks of chunk_with_treesitter: a query that is missing
\* and a query that Query::new rejects are skipped without a trace
RunQuery(d, answer, query, compiled) ==
    IF ~query.some \/ ~compiled THEN <<>>
    ELSE QueryChunks(d, answer.nodes, query.kinds)

\* a mutation of chunk_with_treesitter: a failed parse yields the
\* whole-document chunk instead of the naive chunks
chunk_with_treesitter_nofallback(d, answer) ==
    LET q  == get_queries_from_extension(d.ext)
        cs == IF answer.tree
              THEN RunQuery(d, answer, q.container, answer.compiled.container)
                   \o RunQuery(d, answer, q.function, answer.compiled.function)
              ELSE <<>>
    IN  IF cs = <<>> THEN <<DocumentChunk(d.text, d.id)>> ELSE cs

\* a mutation of chunk_with_treesitter: the function query is run before
\* the container query
chunk_with_treesitter_functions_first(d, answer) ==
    IF ~answer.tree THEN naive_chunk_document(d.text, d.id)
    ELSE LET q  == get_queries_from_extension(d.ext)
             cs == RunQuery(d, answer, q.function, answer.compiled.function)
                   \o RunQuery(d, answer, q.container, answer.compiled.container)
         IN  IF cs = <<>> THEN <<DocumentChunk(d.text, d.id)>> ELSE cs

chunk_with_treesitter(d, answer) ==
    IF ~answer.tree THEN naive_chunk_document(d.text, d.id)
    ELSE LET q  == get_queries_from_extension(d.ext)
             cs == RunQuery(d, answer, q.container, answer.compiled.container)
                   \o RunQuery(d, answer, q.function, answer.compiled.function)
         IN  IF cs = <<>> THEN <<DocumentChunk(d.text, d.id)>> ELSE cs

\* a mutation of chunk_document: the fallback chunk of an empty result is
\* dropped
chunk_document_nofallback(d, answer) ==
    LET cs == IF LANGUAGE_MAP(d.ext) # None
              THEN chunk_with_treesitter(d, answer)
              ELSE naive_chunk_document(d.text, d.id)
    IN  SelectSeq(cs, LAMBDA c : c.chunk_type # "document")

chunk_document(d, answer) ==
    IF LANGUAGE_MAP(d.ext) # None
    THEN chunk_with_treesitter(d, answer)
    ELSE naive_chunk_document(d.text, d.id)

---------------------------------------------------------------------------
(* Components at rest: the value of each component's variables in the      *)
(* specifications of the other components                                  *)

NoAnswer == Answer(FALSE, <<>>, AllCompiled)

ChunkIdle ==
    /\ doc = MakeDocument(<<>>, <<>>)
    /\ ts = NoAnswer
    /\ called = {}
    /\ chunks = <<>>
    /\ naive = <<>>

NotMerged == [done |-> FALSE, chunks |-> <<>>, id_to_idx |-> <<>>]

ParIdle ==
    /\ docs = <<>>
    /\ order = [r \in Runs |-> <<>>]
    /\ results = [r \in Runs |-> <<>>]
    /\ merged = [r \in Runs |-> NotMerged]

NoIndex == [built |-> FALSE, chunks |-> <<>>, embeddings |-> <<>>, id_to_idx |-> <<>>]

NoCall ==
    [op |-> "none", status |-> "Ok", query |-> <<>>, k |-> 0, idx |-> 0,
     hits |-> <<>>, chunk |-> <<>>]

IndexIdle ==
    /\ new_args = [chunks |-> <<>>, embeddings |-> <<>>]
    /\ index = NoIndex
    /\ out = NoCall

NotReturned == [status |-> "none", docs |-> <<>>]

CollectIdle ==
    /\ fs = [root_exists |-> FALSE, entries |-> {}]
    /\ gpc = "idle"
    /\ pending = {}
    /\ loaded = <<>>
    /\ gout = NotReturned

LibIdle ==
    /\ ID_COUNTER = 0
    /\ lib_fs = <<>>
    /\ lib_pc = "idle"
    /\ paths = <<>>
    /\ f2docs = <<>>
    /\ lib_out = NotReturned

---------------------------------------------------------------------------
(* The chunking of one document *)

Init ==
    /\ \E path \in Paths, text \in Texts(MaxLen) :
          /\ doc = MakeDocument(path, text)
          /\ ts \in Answers(Extension(path), text, MaxNodes)
    /\ called = {}
    /\ chunks = <<>>
    /\ naive = <<>>
    /\ ParIdle /\ IndexIdle /\ CollectIdle /\ LibIdle

\* chunk_document(&doc)
ChunkDocument ==
    /\ "chunk_document" \notin called
    /\ chunks' = chunk_document(doc, ts)
    /\ called' = called \cup {"chunk_document"}
    /\ UNCHANGED <<doc, ts, naive, parVars, indexVars, collectVars, libVars>>

\* naive_chunk_document(&doc.text, doc.id), called directly
NaiveChunkDocument ==
    /\ "naive_chunk_document" \notin called
    /\ naive' = naive_chunk_document(doc.text, doc.id)
    /\ called' = called \cup {"naive_chunk_document"}
    /\ UNCHANGED <<doc, ts, chunks, parVars, indexVars, collectVars, libVars>>

Next == ChunkDocument \/ NaiveChunkDocument

Spec == Init /\ [][Next]_vars

---------------------------------------------------------------------------
(* Claims on the chunking of one document *)

Ran(f) == f \in called

\* the segments of a text that are not blank, in order
NonBlankSegments(text) ==
    SelectSeq(SplitBlankLine(text), LAMBDA p : Trim(p) # <<>>)

\* C1: chunk_document returns at least one chunk for every document,
\* whatever its extension, its text and the answer of the parser
C1_Totality == Ran("chunk_document") => Len(chunks) >= 1

\* C1, witness: a blank text of a registered extension parsed to a tree
\* without items has been chunked, to the one fallback chunk
C1_Witness ==
    /\ Ran("chunk_document")
    /\ LANGUAGE_MAP(doc.ext) # None /\ ts.tree
    /\ Trim(doc.text) = <<>>
    /\ Len(chunks) = 1 /\ chunks[1].chunk_type = "document"

\* C2 as stated: every chunk chunk_document returns, the fallback chunk of
\* type "document" included, has a text that is not empty after trimming
C2_Original ==
    Ran("chunk_document") =>
        \A i \in 1..Len(chunks) : Trim(chunks[i].text) # <<>>

\* C2, amended: a chunk whose trimmed text is empty is the single fallback
\* chunk of type "document" of a document whose own text is blank; every
\* other chunk has a text that is not empty after trimming
C2_NonEmptyButFallback ==
    Ran("chunk_document") =>
        \A i \in 1..Len(chunks) :
            Trim(chunks[i].text) = <<>> =>
                /\ chunks[i].chunk_type = "document"
                /\ Len(chunks) = 1
                /\ Trim(doc.text) = <<>>

\* C2, witness: a text with a blank segment beside a segment that is not
\* blank has been chunked, and the blank segment gave no chunk
C2_Witness ==
    /\ Ran("chunk_document")
    /\ LANGUAGE_MAP(doc.ext) = None
    /\ Len(SplitBlankLine(doc.text)) > Len(chunks)
    /\ chunks[1].chunk_type = "paragraph"

\* C3 as stated: every chunk of a document d has doc_id = d.id and
\* id = Hash(d.id || text), text being the text the chunk carries
C3_Original ==
    Ran("chunk_document") =>
        \A i \in 1..Len(chunks) :
            /\ chunks[i].doc_id = doc.id
            /\ chunks[i].id = Sha256(<<doc.id>> \o chunks[i].text)

\* C4 as stated: naive_chunk_document emits one chunk of type "paragraph"
\* per segment that is not blank, in order, with the trimmed segment as its
\* text and the length of the untrimmed segment as its char_count
C4_Original ==
    Ran("naive_chunk_document") =>
        LET segs  == NonBlankSegments(doc.text)
            paras == SelectSeq(naive, LAMBDA c : c.chunk_type = "paragraph")
        IN  /\ Len(paras) = Len(segs)
            /\ \A i \in 1..Len(paras) :
                  /\ paras[i].text = Trim(segs[i])
                  /\ paras[i].char_count = Len(segs[i])

\* C5: for a document whose extension has no grammar, and for one whose
\* parse fails, chunk_document returns the very list that the naive
\* splitter returns for (doc.text, doc.id)
C5_FallbackIsNaive ==
    (Ran("chunk_document") /\ Ran("naive_chunk_document")
        /\ (LANGUAGE_MAP(doc.ext) = None \/ ~ts.tree))
    => chunks = naive

\* C5, witness: a document of a registered extension whose parse failed has
\* been chunked both ways, to two paragraphs
C5_Witness ==
    /\ Ran("chunk_document") /\ Ran("naive_chunk_document")
    /\ LANGUAGE_MAP(doc.ext) # None /\ ~ts.tree
    /\ Len(chunks) = 2 /\ chunks[1].chunk_type = "paragraph"

\* the item nodes of the parsed document that are functions, and those that
\* are types, directly under the root of the file
FunctionKinds ==
    {"function_item", "function_definition", "function_declaration"}

TopLevelNodes(kinds) ==
    SelectSeq(ts.nodes,
              LAMBDA n : n.kind \in kinds
                         /\ n.parent = RootKind(LANGUAGE_MAP(doc.ext)))

AllItemKinds ==
    UNION {ItemKinds(l) : l \in {"rust", "python", "javascript", "c"}}

\* a chunk that renders a node of the tree under one of the three
\* recognized parents
FromTopLevelNode(c) ==
    \E i \in 1..Len(ts.nodes) :
        /\ IsTopLevel(ts.nodes[i])
        /\ c.chunk_type = ts.nodes[i].kind
        /\ c.text = Trim(SubSeq(doc.text, ts.nodes[i].start + 1, ts.nodes[i].end))

\* C12 as stated: a parsed file of a registered extension with exactly one
\* function directly under the file root and no type there gives exactly
\* one chunk, of the node kind of that function; and no chunk renders a
\* node whose parent is not a file root, a module or a program
C12_Original ==
    (Ran("chunk_document") /\ LANGUAGE_MAP(doc.ext) # None /\ ts.tree
        /\ ts.compiled = AllCompiled) =>
        /\ (Len(TopLevelNodes(FunctionKinds)) = 1
                /\ Len(TopLevelNodes(AllItemKinds \ FunctionKinds)) = 0)
           => /\ Len(chunks) = 1
              /\ chunks[1].chunk_type = TopLevelNodes(FunctionKinds)[1].kind
        /\ \A i \in 1..Len(chunks) :
              chunks[i].chunk_type # "document" => FromTopLevelNode(chunks[i])

\* what stands of C12: it holds for the grammars whose file root is one of
\* the three recognized kinds and whose extension has its queries
C12_TopLevelUnderRecognizedRoot ==
    (Ran("chunk_document") /\ LANGUAGE_MAP(doc.ext) # None /\ ts.tree
        /\ ts.compiled = AllCompiled
        /\ RootKind(LANGUAGE_MAP(doc.ext)) \in {"source_file", "module", "program"}
        /\ get_queries_from_extension(doc.ext).function.some) =>
        /\ (Len(TopLevelNodes(FunctionKinds)) = 1
                /\ Len(TopLevelNodes(AllItemKinds \ FunctionKinds)) = 0)
           => /\ Len(chunks) = 1
              /\ chunks[1].chunk_type = TopLevelNodes(FunctionKinds)[1].kind
        /\ \A i \in 1..Len(chunks) :
              chunks[i].chunk_type # "document" => FromTopLevelNode(chunks[i])

\* a query of the document's extension is missing, or Query::new rejected it
QueryFailed ==
    LET q == get_queries_from_extension(doc.ext)
    IN  \/ ~q.container.some \/ ~q.function.some
        \/ ~ts.compiled.container \/ ~ts.compiled.function

\* in a chunk list, no chunk of a kind the function query captures comes
\* before a chunk of a kind the container query captures
ContainersFirst(ext, cs) ==
    LET q == get_queries_from_extension(ext)
    IN  \A i, j \in 1..Len(cs) :
            i < j => ~(cs[i].chunk_type \in q.function.kinds
                       /\ cs[j].chunk_type \in q.container.kinds)

\* C14, on one document: whatever the tree, the chunks of the container
\* query come before the chunks of the function query
C14_ContainersFirstInDocument ==
    (Ran("chunk_document") /\ ts.tree) => ContainersFirst(doc.ext, chunks)

\* C13 as stated: when the extension has a grammar and the parse gave a
\* tree but a query is missing or does not compile, chunk_document returns
\* the chunks the naive splitter returns for the document
C13_Original ==
    (Ran("chunk_document") /\ Ran("naive_chunk_document")
        /\ LANGUAGE_MAP(doc.ext) # None /\ ts.tree /\ QueryFailed)
    => chunks = naive

---------------------------------------------------------------------------
(* chunk_all_documents: one task per document, then the merge *)

Input(path, text, answer) == [doc |-> MakeDocument(path, text), ts |-> answer]

Item(kind, parent, start, end) ==
    [kind |-> kind, parent |-> parent, start |-> start, end |-> end]

\* the Documents chunk_all_documents is run on: two equal paragraphs, one
\* paragraph, a Rust file of two top-level items with the same text, and a
\* blank C file
DocPool ==
    { Input(<<"a">>, <<"a", NL, NL, "a">>, NoAnswer),
      Input(<<"a">>, <<"a">>, NoAnswer),
      Input(<<"a", ".", "r", "s">>, <<"a", "a">>,
            Answer(TRUE,
                   << Item("function_item", "source_file", 0, 1),
                      Item("struct_item", "source_file", 1, 2) >>,
                   AllCompiled)),
      Input(<<"a", ".", "c">>, <<SP>>, Answer(TRUE, <<>>, AllCompiled)) }

RECURSIVE Flatten(_)
Flatten(ss) == IF ss = <<>> THEN <<>> ELSE Head(ss) \o Flatten(Tail(ss))

IdSet(cs) == {cs[i].id : i \in 1..Len(cs)}

\* a mutation of HashMap::insert: the value of a key that is present is kept
HashMapInsertIfAbsent(map, key, value) ==
    [x \in (DOMAIN map) \cup {key} |-> IF x \in DOMAIN map THEN map[x] ELSE value]

\* HashMap::insert: the value of a key that is present is replaced
HashMapInsert(map, key, value) ==
    [x \in (DOMAIN map) \cup {key} |-> IF x = key THEN value ELSE map[x]]

\* the collect() of the (id, index) pairs into a HashMap: the pairs are
\* inserted in the order of the chunks, from pair i on
RECURSIVE CollectFrom(_, _, _)
CollectFrom(cs, i, map) ==
    IF i > Len(cs) THEN map
    ELSE CollectFrom(cs, i + 1, HashMapInsert(map, cs[i].id, i - 1))

\* chunks.iter().enumerate().map(|(i, c)| (c.id, i)).collect() (indices
\* count from 0)
IdToIdx(cs) == CollectFrom(cs, 1, <<>>)

Finished(r) == {order[r][n] : n \in 1..Len(order[r])}

InitPar ==
    /\ docs \in SeqsOfLen(DocPool, NumDocs)
    /\ order = [r \in Runs |-> <<>>]
    /\ results = [r \in Runs |-> [i \in 1..NumDocs |-> <<>>]]
    /\ merged = [r \in Runs |-> NotMerged]
    /\ ChunkIdle /\ IndexIdle /\ CollectIdle /\ LibIdle

\* one task of docs.par_iter().flat_map(chunk_document): tasks of a run
\* finish in any order
ChunkTask(r, i) ==
    /\ ~merged[r].done
    /\ i \notin Finished(r)
    /\ results' = [results EXCEPT ![r][i] = chunk_document(docs[i].doc, docs[i].ts)]
    /\ order' = [order EXCEPT ![r] = Append(@, i)]
    /\ UNCHANGED <<docs, merged, chunkVars, indexVars, collectVars, libVars>>

\* collect() after the last task: the per-document lists in the order of
\* docs, and then the id_to_idx map over the collected vector
Collect(r) ==
    /\ ~merged[r].done
    /\ Finished(r) = 1..NumDocs
    /\ LET cs == Flatten(results[r])
       IN  merged' = [merged EXCEPT ![r] =
                        [done |-> TRUE, chunks |-> cs, id_to_idx |-> IdToIdx(cs)]]
    /\ UNCHANGED <<docs, order, results, chunkVars, indexVars, collectVars, libVars>>

NextPar ==
    \/ \E r \in Runs, i \in 1..NumDocs : ChunkTask(r, i)
    \/ \E r \in Runs : Collect(r)

SpecPar == InitPar /\ [][NextPar]_vars

\* C10: two runs of chunk_all_documents over the same Documents return the
\* same set of chunk ids, in whatever order the tasks of each run finished
C10_SameIdSet ==
    (merged["first"].done /\ merged["second"].done)
    => IdSet(merged["first"].chunks) = IdSet(merged["second"].chunks)

\* C10, witness: both runs have returned, their tasks finished in
\* different orders, over two different Documents
C10_Witness ==
    /\ merged["first"].done /\ merged["second"].done
    /\ order["first"] # order["second"]
    /\ docs[1] # docs[2]
    /\ Cardinality(IdSet(merged["first"].chunks)) >= 2

\* where the chunks of the i-th Document start in the merged vector of a
\* run: after the chunks of the Documents before it
RECURSIVE Offset(_, _)
Offset(r, i) == IF i = 1 THEN 0 ELSE Offset(r, i - 1) + Len(results[r][i - 1])

Block(r, i) ==
    SubSeq(merged[r].chunks, Offset(r, i) + 1, Offset(r, i) + Len(results[r][i]))

\* C14: the chunks of a structured document come with every chunk of the
\* container query before every chunk of the function query, and the
\* vector chunk_all_documents returns holds, for each Document, the list
\* chunk_document returned for it, whole and in its order of emission
C14_EmissionOrder ==
    \A r \in Runs : merged[r].done =>
        /\ Len(merged[r].chunks) = Offset(r, NumDocs) + Len(results[r][NumDocs])
        /\ \A i \in 1..NumDocs :
              /\ Block(r, i) = results[r][i]
              /\ docs[i].ts.tree => ContainersFirst(docs[i].doc.ext, Block(r, i))

\* C14, witness: a run whose second task finished first has returned; its
\* first Document is the Rust file whose tree holds the function before
\* the struct, and the merged vector starts with the struct, then the
\* function
C14_Witness ==
    /\ merged["first"].done
    /\ order["first"][1] = 2
    /\ docs[1].ts.tree /\ Len(docs[1].ts.nodes) = 2
    /\ docs[1].ts.nodes[1].kind = "function_item"
    /\ docs[1] # docs[2]
    /\ merged["first"].chunks[1].chunk_type = "struct_item"
    /\ merged["first"].chunks[2].chunk_type = "function_item"

\* a map from ids to indices into cs that has one entry per id of cs, the
\* entry of an id being the largest index that carries it
LastWriterWins(cs, map) ==
    /\ DOMAIN map = IdSet(cs)
    /\ \A id \in DOMAIN map :
          /\ map[id] \in 0..(Len(cs) - 1)
          /\ cs[map[id] + 1].id = id
          /\ \A j \in 1..Len(cs) : cs[j].id = id => j - 1 <= map[id]

\* C17: the chunk vector keeps every occurrence of a repeated id, and the
\* id_to_idx of chunk_all_documents and of Index::new has one entry per
\* distinct id, which is the largest index carrying that id; so every
\* value is an index of the vector and leads to a chunk of its key
C17_LastWriterWins ==
    /\ \A r \in Runs : merged[r].done =>
          /\ merged[r].chunks = Flatten(results[r])
          /\ LastWriterWins(merged[r].chunks, merged[r].id_to_idx)
    /\ index.built =>
          /\ index.chunks = new_args.chunks
          /\ LastWriterWins(index.chunks, index.id_to_idx)

\* C17, witness: chunk_all_documents returned a vector in which two
\* top-level items of one Rust file carry one id, and the map leads that
\* id to the later of the two
C17_Witness ==
    /\ merged["first"].done
    /\ \E i, j \in 1..Len(merged["first"].chunks) :
          /\ i < j
          /\ merged["first"].chunks[i].id = merged["first"].chunks[j].id
          /\ merged["first"].chunks[i].chunk_type = "struct_item"
          /\ merged["first"].chunks[j].chunk_type = "function_item"
          /\ merged["first"].id_to_idx[merged["first"].chunks[j].id] = j - 1
    /\ Cardinality(DOMAIN merged["first"].id_to_idx) < Len(merged["first"].chunks)

---------------------------------------------------------------------------
(* The similarity index *)

\* An f32 is modelled by its exact value, counted in units of 2^-24; NaN is
\* apart.  The three f32 operations of cosine are given on the operands
\* that the vectors of the model produce, with the correctly rounded f32
\* result of each (sqrt(2) is 23726566 units, and its square rounds to
\* 33554430 units, one step under 2).
F32(v) == [nan |-> FALSE, v |-> v]
NaN == [nan |-> TRUE, v |-> 0]

\* f32::sqrt of a sum of squares
sqrt_f32(n) ==
    CASE n = 0 -> 0
      [] n = 1 -> 16777216
      [] n = 2 -> 23726566

\* na.sqrt() * nb.sqrt()
mul_f32(x, y) ==
    CASE x = 0 \/ y = 0 -> 0
      [] x = 16777216 -> y
      [] y = 16777216 -> x
      [] x = 23726566 /\ y = 23726566 -> 33554430

\* dot / d, dot a small whole number: 0/0 is NaN
div_f32(dot, d) ==
    CASE dot = 0 /\ d = 0 -> NaN
      [] dot = 0 /\ d # 0 -> F32(0)
      [] dot # 0 /\ d = 16777216 -> F32(dot * 16777216)
      [] dot = 1 /\ d = 23726566 -> F32(11863283)
      [] dot = 2 /\ d = 33554430 -> F32(16777218)

RECURSIVE SumProducts(_, _, _)
SumProducts(a, b, n) ==
    IF n = 0 THEN 0 ELSE SumProducts(a, b, n - 1) + a[n] * b[n]

\* cosine(a, b): the three sums of the loop are whole numbers, exact in f32
cosine(a, b) ==
    LET dot == SumProducts(a, b, Len(a))
        na  == SumProducts(a, a, Len(a))
        nb  == SumProducts(b, b, Len(a))
    IN  div_f32(dot, mul_f32(sqrt_f32(na), sqrt_f32(nb)))

\* f32::partial_cmp
partial_cmp(x, y) ==
    IF x.nan \/ y.nan THEN None
    ELSE IF x.v < y.v THEN "Less"
    ELSE IF x.v = y.v THEN "Equal" ELSE "Greater"

\* the embeddings and queries of the model
Vecs == {<<0, 0>>, <<1, 0>>, <<0, 1>>, <<1, 1>>}

\* the chunks handed to Index::new: a paragraph, and the two items of the
\* Rust file of DocPool, which have one text and so one id
IndexChunkPool ==
    LET a == CHOOSE x \in DocPool : x.doc.text = <<"a">>
        b == CHOOSE x \in DocPool : x.doc.ext = <<"r", "s">>
        cs == chunk_document(a.doc, a.ts) \o chunk_document(b.doc, b.ts)
    IN  {cs[i] : i \in 1..Len(cs)}

\* Index::new: no check of the two lengths
Index_new(cs, embeddings) ==
    [built |-> TRUE, chunks |-> cs, embeddings |-> embeddings,
     id_to_idx |-> IdToIdx(cs)]

\* the (i, cosine(query, emb)) pairs search collects, in the order of the
\* embeddings
Scored(query, embeddings) ==
    [i \in 1..Len(embeddings) |->
        [index |-> i - 1, score |-> cosine(query, embeddings[i])]]

\* b.1.partial_cmp(&a.1).unwrap() panics on a NaN score; a sort of two or
\* more elements compares every element at least once
SortPanics(scored) ==
    Len(scored) >= 2 /\ \E i \in 1..Len(scored) : scored[i].score.nan

\* par_sort_unstable_by(|a, b| b.1.partial_cmp(&a.1).unwrap()): any
\* arrangement in which no element is followed by one of a greater score
SortedDescending(scored) ==
    LET n == Len(scored)
        orders == {p \in [1..n -> 1..n] : \A i, j \in 1..n : p[i] = p[j] => i = j}
    IN  {[i \in 1..n |-> scored[p[i]]] : p \in
            {p \in orders : \A i, j \in 1..n :
                i < j => partial_cmp(scored[p[j]].score, scored[p[i]].score) # "Greater"}}

Min(x, y) == IF x <= y THEN x ELSE y
Max(x, y) == IF x >= y THEN x ELSE y

\* Vec::truncate
Truncate(v, k) == SubSeq(v, 1, Min(k, Len(v)))

InitIndex ==
    /\ new_args \in [chunks : SeqsUpTo(IndexChunkPool, MaxChunks),
                     embeddings : SeqsUpTo(Vecs, MaxEmb)]
    /\ index = NoIndex
    /\ out = NoCall
    /\ ChunkIdle /\ ParIdle /\ CollectIdle /\ LibIdle

\* Index::new(chunks, embeddings)
IndexNew ==
    /\ ~index.built
    /\ index' = Index_new(new_args.chunks, new_args.embeddings)
    /\ out' = [NoCall EXCEPT !.op = "new"]
    /\ UNCHANGED <<new_args, chunkVars, parVars, collectVars, libVars>>

\* a behaviour makes one call on the Index it built: the Index never
\* changes, so what a call returns does not depend on the calls before it
Fresh == index.built /\ out.op = "new"

\* index.search(query, k)
Search(query, k) ==
    /\ Fresh
    /\ LET scored == Scored(query, index.embeddings)
           call == [NoCall EXCEPT !.op = "search", !.query = query, !.k = k]
       IN  IF SortPanics(scored)
           THEN out' = [call EXCEPT !.status = "panic: unwrap on None"]
           ELSE \E sorted \in SortedDescending(scored) :
                    out' = [call EXCEPT !.hits = Truncate(sorted, k)]
    /\ UNCHANGED <<new_args, index, chunkVars, parVars, collectVars, libVars>>

\* index.retrieve(idx): &self.chunks[idx]
Retrieve(idx) ==
    /\ Fresh
    /\ LET call == [NoCall EXCEPT !.op = "retrieve", !.idx = idx]
       IN  IF idx < Len(index.chunks)
           THEN out' = [call EXCEPT !.chunk = <<index.chunks[idx + 1]>>]
           ELSE out' = [call EXCEPT !.status = "panic: index out of bounds"]
    /\ UNCHANGED <<new_args, index, chunkVars, parVars, collectVars, libVars>>

NextIndex ==
    \/ IndexNew
    \/ \E query \in Vecs, k \in 0..(Len(index.embeddings) + 1) : Search(query, k)
    \/ \E idx \in 0..Max(Len(index.chunks), Len(index.embeddings)) : Retrieve(idx)

SpecIndex == InitIndex /\ [][NextIndex]_vars

Aligned == Len(index.chunks) = Len(index.embeddings)

\* the hits of a search that returned are the claimed top k: min(k, n)
\* pairs of distinct indices, each with the cosine of its embedding, in
\* non-increasing order, and no entry left out beats one that is returned
IsTopK(hits, query, k, embeddings) ==
    LET n == Len(embeddings)
        returned == {hits[i].index : i \in 1..Len(hits)}
    IN  /\ Len(hits) = Min(k, n)
        /\ \A i, j \in 1..Len(hits) : hits[i].index = hits[j].index => i = j
        /\ \A i \in 1..Len(hits) :
              /\ hits[i].index \in 0..(n - 1)
              /\ hits[i].score = cosine(query, embeddings[hits[i].index + 1])
        /\ \A i, j \in 1..Len(hits) :
              i < j => partial_cmp(hits[i].score, hits[j].score) # "Less"
        /\ \A m \in (0..(n - 1)) \ returned : \A i \in 1..Len(hits) :
              partial_cmp(cosine(query, embeddings[m + 1]), hits[i].score) # "Greater"
        /\ k >= n => returned = 0..(n - 1)

\* C6 as stated: on an Index with n aligned embeddings, search(query, k)
\* returns the exact top k for every query and k; and for the embeddings
\* [1,0], [0,1], [1,1] the query [1,0] with k = 2 gets index 0, then index 2
C6_Original ==
    (out.op = "search" /\ Aligned) =>
        /\ out.status = "Ok"
        /\ IsTopK(out.hits, out.query, out.k, index.embeddings)
        /\ (index.embeddings = <<<<1, 0>>, <<0, 1>>, <<1, 1>>>>
                /\ out.query = <<1, 0>> /\ out.k = 2)
           => <<out.hits[1].index, out.hits[2].index>> = <<0, 2>>

\* what stands of C6: a search that meets no zero-norm vector returns the
\* exact top k
C6_TopKWithoutZeroNorm ==
    (out.op = "search"
        /\ \A v \in {out.query} \cup {index.embeddings[i] : i \in 1..Len(index.embeddings)} :
              v # <<0, 0>>) =>
        /\ out.status = "Ok"
        /\ IsTopK(out.hits, out.query, out.k, index.embeddings)
        /\ (index.embeddings = <<<<1, 0>>, <<0, 1>>, <<1, 1>>>>
                /\ out.query = <<1, 0>> /\ out.k = 2)
           => <<out.hits[1].index, out.hits[2].index>> = <<0, 2>>

\* C7 as stated: Index::new fails when the two lengths differ, so a built
\* Index has as many chunks as embeddings and every index that search
\* returns can be retrieved
C7_Original ==
    /\ (out.op = "new" /\ Len(new_args.chunks) # Len(new_args.embeddings))
          => out.status # "Ok"
    /\ index.built => Aligned
    /\ (out.op = "search" /\ out.status = "Ok") =>
          \A i \in 1..Len(out.hits) : out.hits[i].index < Len(index.chunks)

\* C8 as stated: retrieve(idx) returns chunks[idx] when idx is in range and
\* fails with the InvalidIndex error when it is not
C8_Original ==
    out.op = "retrieve" =>
        IF out.idx < Len(index.chunks)
        THEN out.status = "Ok" /\ out.chunk = <<index.chunks[out.idx + 1]>>
        ELSE out.status = "InvalidIndex" /\ out.chunk = <<>>

\* C15 as stated: two entries of equal score are returned in the order of
\* their original indices, as a stable sort leaves them
C15_Original ==
    (out.op = "search" /\ out.status = "Ok") =>
        \A i, j \in 1..Len(out.hits) :
            (i < j /\ partial_cmp(out.hits[i].score, out.hits[j].score) = "Equal")
            => out.hits[i].index < out.hits[j].index

\* the norm of a vector of the model is zero
ZeroNorm(v) == SumProducts(v, v, Len(v)) = 0

\* C16 as stated: a search that meets a zero-norm query or embedding still
\* returns, and no score it returns is undefined: the entry counts as 0 or
\* is left out
C16_Original ==
    (out.op = "search"
        /\ (ZeroNorm(out.query)
             \/ \E i \in 1..Len(index.embeddings) : ZeroNorm(index.embeddings[i]))) =>
        /\ out.status = "Ok"
        /\ \A i \in 1..Len(out.hits) : ~out.hits[i].score.nan

---------------------------------------------------------------------------
(* The document collector *)

\* an entry under the root: its root-relative path, whether it is a file,
\* what reading it gives and whether its metadata can be had
Entry(path, kind, read, text, meta_ok) ==
    [path |-> path, kind |-> kind, read |-> read, text |-> text, meta_ok |-> meta_ok]

\* the entries a root can hold: two files whose path and text concatenate
\* to the same bytes, a file named with a backslash and a file in a dotted
\* directory whose paths normalize to one path, a Rust file that is not
\* UTF-8, a file that cannot be read, a file without metadata, and a
\* directory
EntryPool ==
    { Entry(<<"a">>, "file", "ok", <<"a", "a">>, TRUE),
      Entry(<<"a", "a">>, "file", "ok", <<"a">>, TRUE),
      Entry(<<"d", ".", "x", "\\", "f">>, "file", "ok", <<"a">>, TRUE),
      Entry(<<"d", ".", "x", "/", "f">>, "file", "ok", <<"a">>, TRUE),
      Entry(<<"a", ".", "r", "s">>, "file", "InvalidData", <<>>, TRUE),
      Entry(<<"b">>, "file", "PermissionDenied", <<>>, TRUE),
      Entry(<<"c">>, "file", "ok", <<NL>>, FALSE),
      Entry(<<"d">>, "dir", "ok", <<>>, TRUE) }

\* the entry of the root directory itself, and the one item WalkDir yields
\* for a root that does not exist: an error
RootEntry == Entry(<<>>, "dir", "ok", <<>>, TRUE)
WalkError == Entry(<<>>, "error", "ok", <<>>, TRUE)

\* WalkDir::new(root).into_iter()
WalkDir(f) ==
    IF f.root_exists THEN {RootEntry} \cup f.entries ELSE {WalkError}

\* entry.ok()? and then load_document(root, &entry): the Documents it
\* yields, none or one
load_document(entry) ==
    IF entry.kind = "error" THEN <<>>
    ELSE IF entry.kind # "file" THEN <<>>
    ELSE IF entry.read # "ok" THEN <<>>
    ELSE IF ~entry.meta_ok THEN <<>>
    ELSE <<MakeDocument(entry.path, entry.text)>>

InitCollect ==
    /\ fs \in {[root_exists |-> TRUE, entries |-> es] : es \in SUBSET EntryPool}
              \cup {[root_exists |-> FALSE, entries |-> {}]}
    /\ gpc = "idle"
    /\ pending = {}
    /\ loaded = <<>>
    /\ gout = NotReturned
    /\ ChunkIdle /\ ParIdle /\ IndexIdle /\ LibIdle

\* grab_all_documents(root): the walk starts; the existence of the root is
\* not looked at
Walk ==
    /\ gpc = "idle"
    /\ gpc' = "loading"
    /\ pending' = WalkDir(fs)
    /\ UNCHANGED <<fs, loaded, gout, chunkVars, parVars, indexVars, libVars>>

\* one task of par_bridge().filter_map(..): the entries are taken in any
\* order
LoadEntry(entry) ==
    /\ gpc = "loading"
    /\ entry \in pending
    /\ pending' = pending \ {entry}
    /\ loaded' = loaded \o load_document(entry)
    /\ UNCHANGED <<fs, gpc, gout, chunkVars, parVars, indexVars, libVars>>

\* collect(): the Vec<Document> is returned, there is no error to return
Return ==
    /\ gpc = "loading"
    /\ pending = {}
    /\ gpc' = "returned"
    /\ gout' = [status |-> "Ok", docs |-> loaded]
    /\ UNCHANGED <<fs, pending, loaded, chunkVars, parVars, indexVars, libVars>>

NextCollect ==
    \/ Walk
    \/ \E entry \in pending : LoadEntry(entry)
    \/ Return

SpecCollect == InitCollect /\ [][NextCollect]_vars

\* C9 as stated: a root path that does not exist makes the collection fail
\* with RootNotFound, before any per-file work, and never end as a
\* successful empty collection
C9_Original ==
    (gpc = "returned" /\ ~fs.root_exists) => gout.status = "RootNotFound"

\* C18 as stated: two Documents of a collection have the same id exactly
\* when they have the same path and the same text; two files of different
\* paths never share an id
C18_Original ==
    gpc = "returned" =>
        \A i, j \in 1..Len(gout.docs) :
            (gout.docs[i].id = gout.docs[j].id)
            <=> (gout.docs[i].path = gout.docs[j].path
                 /\ gout.docs[i].text = gout.docs[j].text)

---------------------------------------------------------------------------
(* The collector of src/src/lib.rs: Document ids drawn from ID_COUNTER *)

\* the static counter is an AtomicU32; the model keeps its wrap-around at a
\* smaller width
CounterBits == 2
CounterRange == 2 ^ CounterBits
\* most entries under the root
MaxFiles == 3

\* a mutation of fetch_add: the counter is read and left as it is
fetch_add_load(counter) == [ret |-> counter, next |-> counter]

\* AtomicU32::fetch_add(1, SeqCst): one atomic step that returns the value
\* it found and leaves the value plus one, wrapping
fetch_add(counter) == [ret |-> counter, next |-> (counter + 1) % CounterRange]

\* what an entry under the root can be: a readable file, a file that
\* read_to_string fails on, a file whose metadata cannot be had, a directory
EntryStates == {"ok", "unreadable", "no_metadata", "dir"}

\* the relative path of the i-th entry of the walk: i times the letter a
RECURSIVE PathOf(_)
PathOf(i) == IF i = 0 THEN <<>> ELSE Append(PathOf(i - 1), "a")

LibEntry(i, state) == [path |-> PathOf(i), state |-> state, text |-> <<"a">>]

\* the Document f2doc builds around the id it drew
LibDocument(id, entry) ==
    [id |-> id, path |-> entry.path, text |-> entry.text,
     meta |-> [extension |-> Extension(entry.path), size_bytes |-> Len(entry.text)]]

NotRun == [ran |-> FALSE, status |-> "none", doc |-> <<>>]

\* f2doc(root, relative_path): None when read_to_string fails, as it does
\* on a file that cannot be read and on a directory, a panic when the
\* metadata cannot be had, and else a Document with the next id; the
\* result is paired with the counter it leaves
f2doc(entry, counter) ==
    IF entry.state \in {"unreadable", "dir"}
    THEN [res |-> [ran |-> TRUE, status |-> "None", doc |-> <<>>], counter |-> counter]
    ELSE IF entry.state = "no_metadata"
    THEN [res |-> [ran |-> TRUE, status |-> "panic: oopsie", doc |-> <<>>],
          counter |-> counter]
    ELSE LET f == fetch_add(counter)
         IN  [res |-> [ran |-> TRUE, status |-> "Some",
                       doc |-> <<LibDocument(f.ret, entry)>>],
              counter |-> f.next]

\* the first pass of grab_all_documents: the entries that are files, in
\* the order of the walk
WalkedFiles(entries) == SelectSeq(entries, LAMBDA e : e.state # "dir")

\* the counter is static: the calls before this one left it anywhere
InitLib ==
    /\ ID_COUNTER \in 0..(CounterRange - 1)
    /\ \E n \in 0..MaxFiles : \E st \in [1..n -> EntryStates] :
          lib_fs = [i \in 1..n |-> LibEntry(i, st[i])]
    /\ lib_pc = "idle"
    /\ paths = <<>>
    /\ f2docs = <<>>
    /\ lib_out = NotReturned
    /\ ChunkIdle /\ ParIdle /\ IndexIdle /\ CollectIdle

\* grab_all_documents(root), its sequential walk
LibWalk ==
    /\ lib_pc = "idle"
    /\ lib_pc' = "loading"
    /\ paths' = WalkedFiles(lib_fs)
    /\ f2docs' = [i \in 1..Len(WalkedFiles(lib_fs)) |-> NotRun]
    /\ UNCHANGED <<ID_COUNTER, lib_fs, lib_out, chunkVars, parVars, indexVars, collectVars>>

\* one task of paths.par_iter().filter_map(f2doc): the tasks run in any
\* order, each drawing its id in one atomic step
F2Doc(i) ==
    /\ lib_pc = "loading"
    /\ ~f2docs[i].ran
    /\ LET r == f2doc(paths[i], ID_COUNTER)
       IN  /\ f2docs' = [f2docs EXCEPT ![i] = r.res]
           /\ ID_COUNTER' = r.counter
    /\ UNCHANGED <<lib_fs, lib_pc, paths, lib_out, chunkVars, parVars, indexVars, collectVars>>

\* collect(): the Documents in the order of paths; a panic of a task is
\* the panic of the call
LibReturn ==
    /\ lib_pc = "loading"
    /\ \A i \in 1..Len(f2docs) : f2docs[i].ran
    /\ lib_pc' = "returned"
    /\ lib_out' =
          IF \E i \in 1..Len(f2docs) : f2docs[i].status = "panic: oopsie"
          THEN [status |-> "panic: oopsie", docs |-> <<>>]
          ELSE [status |-> "Ok",
                docs |-> Flatten([i \in 1..Len(f2docs) |-> f2docs[i].doc])]
    /\ UNCHANGED <<ID_COUNTER, lib_fs, paths, f2docs, chunkVars, parVars, indexVars, collectVars>>

NextLib ==
    \/ LibWalk
    \/ \E i \in 1..Len(f2docs) : F2Doc(i)
    \/ LibReturn

SpecLib == InitLib /\ [][NextLib]_vars

\* C11: the Documents one call of grab_all_documents returns have pairwise
\* distinct ids, in whatever order the per-file tasks drew them from the
\* counter, as long as the files are fewer than the range of the counter
C11_UniqueIds ==
    (lib_pc = "returned" /\ Len(paths) < CounterRange) =>
        \A i, j \in 1..Len(lib_out.docs) :
            lib_out.docs[i].id = lib_out.docs[j].id => i = j

\* C11, witness: a call returned three Documents whose ids were drawn out
\* of the order of the paths and across the wrap of the counter
C11_Witness ==
    /\ lib_pc = "returned"
    /\ Len(lib_out.docs) = 3
    /\ lib_out.docs[1].id > lib_out.docs[2].id
    /\ lib_out.docs[3].id = 0
    /\ ID_COUNTER = 1
    /\ Len(paths) < CounterRange

=============================================================================
